---- MODULE Spec2Model ----
(***************************************************************************)
(* Model of clone_or_update_all_org_github_repos.py: GitHubRepoSync lists  *)
(* the repositories of an organization page by page, shuffles them and     *)
(* runs one sync_repository coroutine per repository under an              *)
(* asyncio.Semaphore; failures of git are collected in self.errors and     *)
(* reported after asyncio.gather returns.                                  *)
(***************************************************************************)
EXTENDS Naturals, Sequences, FiniteSets, TLC

\* ---------------------------------------------------------------- bounds
MaxK == 2
MaxPages == 2
MaxRepos == 3

NameOrder == <<"A", "B", "C">>

Names == {NameOrder[i] : i \in 1..Len(NameOrder)}

Rank(n) == CHOOSE i \in 1..Len(NameOrder) : NameOrder[i] = n

\* ------------------------------------------------------------- data model
\* A repository descriptor of the API's JSON array: the two keys the code reads.
SshUrl(n) == <<"ssh", n>>

Descriptor(n) == [name |-> n, ssh_url |-> SshUrl(n)]

Descriptors == {Descriptor(n) : n \in Names}

SeqsUpTo(S, n) == UNION {[1..k -> S] : k \in 0..n}

\* One response of the endpoint: raise_for_status() passes ("ok") or raises.
\* A page that is answered holds at most n descriptors here.
Responses(n) == [status : {"ok"}, body : SeqsUpTo(Descriptors, n)]
                  \cup {[status |-> "error", body |-> <<>>]}

\* The remote collection: what pages 1..Len answer; every later page is empty.
\* At most p pages are given, with at most n descriptors in all.
RECURSIVE RemotesWithin(_, _)
RemotesWithin(p, n) ==
    IF p = 0 THEN {<<>>}
    ELSE {<<>>} \cup UNION {{<<r>> \o rest : rest \in RemotesWithin(p - 1, n - Len(r.body))} :
                              r \in Responses(n)}

Remotes == RemotesWithin(MaxPages, MaxRepos)

\* The names of the repositories the task runs are tried on.
TaskNames == {"A", "B"}

InNameOrder(body) ==
    \A i, j \in 1..Len(body) : i < j => Rank(body[i].name) <= Rank(body[j].name)

\* The remotes whose listing is over after one page of repositories: page 1,
\* then the empty page or a failing request. Page 1 is taken in name order:
\* the list is shuffled before it is used, so every order of it is run anyway.
ShortRemotes ==
    {r \in Remotes :
        /\ \/ Len(r) <= 1
           \/ Len(r) = 2 /\ r[1].body # <<>> /\ r[2].status = "error"
        /\ Len(r) >= 1 =>
              /\ InNameOrder(r[1].body)
              /\ \A i \in 1..Len(r[1].body) : r[1].body[i].name \in TaskNames}

VARIABLES
    remote,      \* the endpoint's answers, page by page
    K,           \* max_concurrent
    fs,          \* names n for which base_path / n exists
    mainpc,      \* position of sync_all_repositories
    listing,     \* "running" | "ok" | "failed": outcome of get_repositories
    page,        \* get_repositories: page
    repos,       \* get_repositories: repos
    requested,   \* page numbers requested so far, in order
    batch,       \* repos after random.shuffle
    task,        \* one record per coroutine passed to gather
    sem,         \* self.semaphore._value
    waiters,     \* self.semaphore._waiters
    errors,      \* self.errors
    out,         \* records logged by sync_all_repositories
    exitStatus   \* "running" | "0" | "1": the process exit status

vars == <<remote, K, fs, mainpc, listing, page, repos, requested, batch, task,
          sem, waiters, errors, out, exitStatus>>

\* ------------------------------------------------------------------ Init
\* __init__ with `Semaphore(max_concurrent or 1)`: a limit of 0 is replaced.
StartWithAtLeastOnePermit ==
    /\ mainpc = "get_repositories"
    /\ listing = "running"
    /\ page = 1
    /\ repos = <<>>
    /\ requested = <<>>
    /\ batch = <<>>
    /\ task = <<>>
    /\ sem = IF K = 0 THEN 1 ELSE K
    /\ waiters = <<>>
    /\ errors = <<>>
    /\ out = <<>>
    /\ exitStatus = "running"

\* The state after GitHubRepoSync.__init__, whatever the environment is.
Start ==
    /\ mainpc = "get_repositories"
    /\ listing = "running"
    /\ page = 1
    /\ repos = <<>>
    /\ requested = <<>>
    /\ batch = <<>>
    /\ task = <<>>
    /\ sem = K
    /\ waiters = <<>>
    /\ errors = <<>>
    /\ out = <<>>
    /\ exitStatus = "running"

\* Every concurrency limit and filesystem; a listing of at most one page.
Init ==
    /\ remote \in ShortRemotes
    /\ K \in 0..MaxK
    /\ fs \in SUBSET TaskNames
    /\ Start

\* Every paged listing; the limit and the filesystem play no part in it.
InitListing ==
    /\ remote \in Remotes
    /\ K = 1
    /\ fs = {}
    /\ Start

\* ------------------------------------------------------- get_repositories
\* requests.get(url, params={'page': p, ...}): pages past the last answer [].
ResponseAt(p) ==
    IF p \in 1..Len(remote) THEN remote[p] ELSE [status |-> "ok", body |-> <<>>]

\* `if not page_repos: break`
EndOfPagination(page_repos) == page_repos = <<>>

\* `repos = page_repos` in place of extend: only the last page is kept.
ExtendReplaces(rs, page_repos) == page_repos

\* `repos.extend(page_repos)`
Extend(rs, page_repos) == rs \o page_repos

\* `page += 2`: every second page is skipped.
NextPageSkips(p) == p + 2

\* `page += 1`
NextPage(p) == p + 1

\* random.shuffle(repos): every permutation of the list is a possible order.
Shuffles(rs) ==
    LET n == Len(rs)
        perms == {f \in [1..n -> 1..n] : \A i, j \in 1..n : f[i] = f[j] => i = j}
    IN  {[i \in 1..n |-> rs[f[i]]] : f \in perms}

\* A coroutine object made by `self.sync_repository(repo)`, not yet run.
NewTask == [pc |-> "created", exists |-> "unchecked", invs |-> <<>>, result |-> "none"]

\* tasks = [self.sync_repository(repo) for repo in repos]
MakeTasks(b) == [i \in 1..Len(b) |-> NewTask]

LogRecord(kind, msg) == [kind |-> kind, msg |-> msg]

\* One iteration of the while loop that gets a non-empty page.
PageNonEmpty ==
    /\ mainpc = "get_repositories"
    /\ ResponseAt(page).status = "ok"
    /\ ~EndOfPagination(ResponseAt(page).body)
    /\ requested' = Append(requested, page)
    /\ repos' = Extend(repos, ResponseAt(page).body)
    /\ page' = NextPage(page)
    /\ UNCHANGED <<remote, K, fs, mainpc, listing, batch, task, sem, waiters,
                   errors, out, exitStatus>>

\* The iteration that gets an empty page: break, return repos; the caller logs
\* the count, shuffles, makes the coroutines and awaits gather.
PageEmpty ==
    /\ mainpc = "get_repositories"
    /\ ResponseAt(page).status = "ok"
    /\ EndOfPagination(ResponseAt(page).body)
    /\ requested' = Append(requested, page)
    /\ listing' = "ok"
    /\ batch' \in Shuffles(repos)
    /\ task' = MakeTasks(batch')
    /\ mainpc' = "gather"
    /\ UNCHANGED <<remote, K, fs, page, repos, sem, waiters, errors, out,
                   exitStatus>>

\* A failing request taken for the end of the listing: the pages fetched so
\* far are shuffled and synchronized.
PageErrorEndsListing ==
    /\ mainpc = "get_repositories"
    /\ ResponseAt(page).status = "error"
    /\ requested' = Append(requested, page)
    /\ listing' = "failed"
    /\ batch' \in Shuffles(repos)
    /\ task' = MakeTasks(batch')
    /\ mainpc' = "gather"
    /\ UNCHANGED <<remote, K, fs, page, repos, sem, waiters, errors, out,
                   exitStatus>>

\* The iteration whose request fails: raise_for_status() raises, the handler of
\* sync_all_repositories logs it and calls sys.exit(1).
PageError ==
    /\ mainpc = "get_repositories"
    /\ ResponseAt(page).status = "error"
    /\ requested' = Append(requested, page)
    /\ listing' = "failed"
    /\ out' = Append(out, LogRecord("fetch_failed", "HTTPError"))
    /\ mainpc' = "exited"
    /\ exitStatus' = "1"
    /\ UNCHANGED <<remote, K, fs, page, repos, batch, task, sem, waiters, errors>>

\* ------------------------------------------------------ asyncio.Semaphore
\* The operators below act on a record s = [sem, waiters, task, errors], the
\* part of the state one step of sync_repository reads and writes.
Shared == [sem |-> sem, waiters |-> waiters, task |-> task, errors |-> errors]

\* locked() that forgets the value: only a queue makes a task wait.
LockedOnlyWhenQueued(s) == s.waiters # <<>>

\* Semaphore.locked(): no permit left, or somebody is already queued.
Locked(s) == s.sem = 0 \/ s.waiters # <<>>

\* Semaphore._wake_up_next(): the first waiter whose future is not done gets
\* the permit (the value is decremented on its behalf); it stays in _waiters
\* until it runs again.
WakeUpNext(s) ==
    LET pending == {i \in 1..Len(s.waiters) : s.task[s.waiters[i]].pc = "waiting"}
    IN  IF pending = {} THEN s
        ELSE LET first == CHOOSE i \in pending : \A j \in pending : i <= j
             IN  [s EXCEPT !.sem = @ - 1, !.task[s.waiters[first]].pc = "granted"]

\* Semaphore.release(), the exit of `async with self.semaphore`.
Release(s) == WakeUpNext([s EXCEPT !.sem = @ + 1])

\* Semaphore.acquire() when not locked: take a permit without suspending.
AcquireNow(s) == [s EXCEPT !.sem = @ - 1]

\* Semaphore.acquire() when locked: queue a future and suspend on it.
Enqueue(s, t) == [s EXCEPT !.waiters = Append(@, t), !.task[t].pc = "waiting"]

RemoveWaiter(w, t) == SelectSeq(w, LAMBDA u : u # t)

\* Semaphore.acquire() after `await fut`: leave _waiters, pass a spare permit on.
AcquireResumed(s, t) ==
    LET left == [s EXCEPT !.waiters = RemoveWaiter(@, t)]
    IN  IF left.sem > 0 THEN WakeUpNext(left) ELSE left

\* -------------------------------------------------------- sync_repository
\* The test inverted: clone what exists, pull what does not.
BranchInverted(exists) == IF exists THEN "clone" ELSE "pull"

\* `if repo_path.exists():` pull, else clone.
Branch(exists) == IF exists THEN "pull" ELSE "clone"

\* The arguments of asyncio.create_subprocess_exec in each branch.
Invocation(cmd, d) ==
    IF cmd = "pull"
    THEN [cmd |-> "pull", url |-> <<>>, cwd |-> <<"base_path", d.name>>]
    ELSE [cmd |-> "clone", url |-> d.ssh_url, cwd |-> <<"base_path">>]

\* The message built without the repository's name.
ErrorMsgWithoutName(cmd, d, detail, t) ==
    [op |-> cmd, name |-> "", detail |-> detail, task |-> t]

\* error_msg = f"Failed to {pull|clone} {repo_name}: {stderr | str(e)}";
\* task is not part of the text: it records which coroutine appended it.
ErrorMsg(cmd, d, detail, t) ==
    [op |-> cmd, name |-> d.name, detail |-> detail, task |-> t]

\* The handler re-raises instead of recording: the failure leaves the task.
OutcomeNotCaught(s, t, d, cmd, res) ==
    IF res = "zero"
    THEN [s EXCEPT !.task[t].pc = "done_success", !.task[t].result = res]
    ELSE [s EXCEPT !.task[t].pc = "raised", !.task[t].result = res]

\* `except Exception` that logs the message and forgets to append it.
OutcomeDropsException(s, t, d, cmd, res) ==
    IF res = "zero"
    THEN [s EXCEPT !.task[t].pc = "done_success", !.task[t].result = res]
    ELSE [s EXCEPT !.task[t].pc = "done_failure", !.task[t].result = res,
                   !.errors = IF res = "nonzero"
                              THEN Append(@, ErrorMsg(cmd, d, "stderr", t)) ELSE @]

\* A failed invocation puts the coroutine back at its start: a retry.
OutcomeRetries(s, t, d, cmd, res) ==
    IF res = "zero"
    THEN [s EXCEPT !.task[t].pc = "done_success", !.task[t].result = res]
    ELSE [s EXCEPT !.task[t].pc = "created"]

\* What the invocation's outcome does: returncode 0 logs success; a non-zero
\* returncode or an exception logs and appends one message to self.errors.
Outcome(s, t, d, cmd, res) ==
    IF res = "zero"
    THEN [s EXCEPT !.task[t].pc = "done_success", !.task[t].result = res]
    ELSE [s EXCEPT !.task[t].pc = "done_failure", !.task[t].result = res,
                   !.errors = Append(@, ErrorMsg(cmd, d,
                                  IF res = "nonzero" THEN "stderr" ELSE "exception", t))]

\* The body without `async with`: release() is called after the git branch
\* only, so an exception raised before it keeps the permit.
BodyLeaksOnError(s, t, env) ==
    LET d == batch[t]
        exists == d.name \in fs
        cmd == Branch(exists)
        started == [s EXCEPT !.task[t].exists = IF exists THEN "yes" ELSE "no",
                             !.task[t].invs = Append(@, Invocation(cmd, d))]
    IN  CASE env = "check_error" -> [s EXCEPT !.task[t].pc = "raised"]
          [] env = "spawn_error" -> Release(Outcome(started, t, d, cmd, "exception"))
          [] env = "spawned"     -> [started EXCEPT !.task[t].pc = cmd]

\* The body of the with block up to the first suspension, for a task that
\* holds a permit. env is what the environment does to it:
\*   "check_error": repo['name'], repo['ssh_url'] or repo_path.exists() raises;
\*   "spawn_error":  create_subprocess_exec raises;
\*   "spawned":      the subprocess runs and the task suspends in communicate().
Body(s, t, env) ==
    LET d == batch[t]
        exists == d.name \in fs
        cmd == Branch(exists)
        started == [s EXCEPT !.task[t].exists = IF exists THEN "yes" ELSE "no",
                             !.task[t].invs = Append(@, Invocation(cmd, d))]
    IN  CASE env = "check_error" -> Release([s EXCEPT !.task[t].pc = "raised"])
          [] env = "spawn_error" -> Release(Outcome(started, t, d, cmd, "exception"))
          [] env = "spawned"     -> [started EXCEPT !.task[t].pc = cmd]

Envs == {"check_error", "spawn_error", "spawned"}

Results == {"zero", "nonzero", "exception"}

Install(s) ==
    /\ sem' = s.sem
    /\ waiters' = s.waiters
    /\ task' = s.task
    /\ errors' = s.errors

\* gather schedules the first step of every coroutine, in list order, before
\* sync_all_repositories suspends; the event loop runs its ready queue in
\* order, so all first steps run before any wake-up, any completion of a
\* subprocess and any resumption of sync_all_repositories.
AllStarted == \A t \in 1..Len(task) : task[t].pc # "created"

\* First step of a coroutine: `async with self.semaphore` either enters at
\* once and runs the body, or suspends in acquire().
TaskStart(t) ==
    /\ mainpc = "gather"
    /\ task[t].pc = "created"
    /\ \A u \in 1..(t - 1) : task[u].pc # "created"
    /\ IF Locked(Shared)
       THEN Install(Enqueue(Shared, t))
       ELSE \E env \in Envs : Install(Body(AcquireNow(Shared), t, env))
    /\ UNCHANGED <<remote, K, fs, mainpc, listing, page, repos, requested, batch,
                   out, exitStatus>>

\* A waiter that was handed the permit runs again: acquire() returns and the
\* body runs.
TaskResume(t) ==
    /\ mainpc = "gather"
    /\ AllStarted
    /\ task[t].pc = "granted"
    /\ \E env \in Envs : Install(Body(AcquireResumed(Shared, t), t, env))
    /\ UNCHANGED <<remote, K, fs, mainpc, listing, page, repos, requested, batch,
                   out, exitStatus>>

\* communicate() returns (or raises): the outcome is logged, the with block is
\* left and the permit released. A clone that exits 0 has created base_path/name.
InvocationComplete(t) ==
    /\ mainpc = "gather"
    /\ AllStarted
    /\ task[t].pc \in {"pull", "clone"}
    /\ \E res \in Results :
         /\ Install(Release(Outcome(Shared, t, batch[t], task[t].pc, res)))
         /\ fs' = IF res = "zero" /\ task[t].pc = "clone"
                  THEN fs \cup {batch[t].name} ELSE fs
    /\ UNCHANGED <<remote, K, mainpc, listing, page, repos, requested, batch,
                   out, exitStatus>>

\* -------------------------------------------------- sync_all_repositories
Terminal == {"done_success", "done_failure"}

\* The messages emitted newest first.
SummaryNewestFirst(errs) ==
    (IF errs # <<>>
     THEN <<LogRecord("summary_header", "Summary of all errors:")>>
            \o [i \in 1..Len(errs) |-> LogRecord("error", errs[Len(errs) + 1 - i])]
     ELSE <<>>)
    \o <<LogRecord("completed", "Repository synchronization completed")>>

\* `if self.errors:` the header and every message, then the completion line.
Summary(errs) ==
    (IF errs # <<>>
     THEN <<LogRecord("summary_header", "Summary of all errors:")>>
            \o [i \in 1..Len(errs) |-> LogRecord("error", errs[i])]
     ELSE <<>>)
    \o <<LogRecord("completed", "Repository synchronization completed")>>

\* gather's future has a result once every coroutine has returned.
GatherDone(tk) == \A t \in 1..Len(tk) : tk[t].pc \in Terminal

\* `await asyncio.gather(*tasks)` returns: summary, completion line, return;
\* async_main returns and the process exits with status 0.
GatherReturn ==
    /\ mainpc = "gather"
    /\ GatherDone(task)
    /\ out' = out \o Summary(errors)
    /\ mainpc' = "returned"
    /\ exitStatus' = "0"
    /\ UNCHANGED <<remote, K, fs, listing, page, repos, requested, batch, task,
                   sem, waiters, errors>>

\* asyncio.run's cleanup after SystemExit: every unfinished task is cancelled;
\* a task inside the with block leaves it and gives its permit back.
CancelAll(s) ==
    LET live == {t \in 1..Len(s.task) :
                    s.task[t].pc \in {"waiting", "granted", "pull", "clone"}}
        holding == {t \in live : s.task[t].pc \in {"granted", "pull", "clone"}}
    IN  [s EXCEPT !.task = [t \in 1..Len(s.task) |->
                              IF t \in live THEN [s.task[t] EXCEPT !.pc = "cancelled"]
                              ELSE s.task[t]],
                  !.waiters = <<>>,
                  !.sem = @ + Cardinality(holding)]

\* gather(..., return_exceptions=True) in effect: the exception of a coroutine
\* is taken for a result and the run reports and returns.
GatherRaiseTakenAsResult ==
    /\ mainpc = "gather"
    /\ AllStarted
    /\ \E t \in 1..Len(task) : task[t].pc = "raised"
    /\ out' = out \o Summary(errors)
    /\ mainpc' = "returned"
    /\ exitStatus' = "0"
    /\ Install(CancelAll(Shared))
    /\ UNCHANGED <<remote, K, fs, listing, page, repos, requested, batch>>

\* gather's future gets the exception of the first coroutine that raised:
\* `except Exception` logs "Failed to fetch repositories" and calls
\* sys.exit(1); the siblings are not awaited.
GatherRaise ==
    /\ mainpc = "gather"
    /\ AllStarted
    /\ \E t \in 1..Len(task) : task[t].pc = "raised"
    /\ out' = Append(out, LogRecord("fetch_failed", "CheckError"))
    /\ mainpc' = "exited"
    /\ exitStatus' = "1"
    /\ Install(CancelAll(Shared))
    /\ UNCHANGED <<remote, K, fs, listing, page, repos, requested, batch>>

\* ------------------------------------------------------------------ Spec
Next ==
    \/ PageNonEmpty
    \/ PageEmpty
    \/ PageError
    \/ \E t \in 1..Len(task) : TaskStart(t)
    \/ \E t \in 1..Len(task) : TaskResume(t)
    \/ \E t \in 1..Len(task) : InvocationComplete(t)
    \/ GatherReturn
    \/ GatherRaise

Spec == Init /\ [][Next]_vars

\* get_repositories alone, up to the point where it returns or raises.
NextListing ==
    \/ PageNonEmpty
    \/ PageEmpty
    \/ PageError

SpecListing == InitListing /\ [][NextListing]_vars

\* ------------------------------------------------- the three-item scenario
\* The run of the end-to-end scenario: the listing is A, B, C; base_path/A and
\* base_path/C exist, base_path/B does not; max_concurrent is 2.
Init13 ==
    /\ remote = <<[status |-> "ok",
                   body |-> <<Descriptor("A"), Descriptor("B"), Descriptor("C")>>]>>
    /\ K = 2
    /\ fs = {"A", "C"}
    /\ Start

\* What git does in the scenario, read off the task records tk of batch b: the
\* invocations for A and B exit 0, the one for C fails, nothing else raises.
InScenario(b, tk) ==
    \A t \in 1..Len(tk) :
        /\ tk[t].pc # "raised"
        /\ b[t].name \in {"A", "B"} => tk[t].result \in {"none", "zero"}
        /\ b[t].name = "C" => tk[t].result \in {"none", "nonzero", "exception"}

\* The steps of the program under that environment.
Next13 ==
    \/ PageNonEmpty
    \/ PageEmpty
    \/ (\E t \in 1..Len(task) : TaskStart(t)) /\ InScenario(batch', task')
    \/ (\E t \in 1..Len(task) : TaskResume(t)) /\ InScenario(batch', task')
    \/ (\E t \in 1..Len(task) : InvocationComplete(t)) /\ InScenario(batch', task')
    \/ GatherReturn

Spec13 == Init13 /\ [][Next13]_vars

\* ---------------------------------------------------------------- claims
Tasks == 1..Len(task)

\* The tasks whose git subprocess has been started and has not completed.
Active == {t \in Tasks : task[t].pc \in {"pull", "clone"}}

\* C1: for every limit K >= 1, in every reachable state the number of tasks
\* that have started a git invocation and not yet seen it complete is at most K.
C1_ActiveWithinLimit == K >= 1 => Cardinality(Active) <= K

\* K invocations are running and another task is queued on the semaphore.
C1_Witness ==
    /\ K >= 1
    /\ Cardinality(Active) = K
    /\ \E t \in Tasks : task[t].pc = "waiting"

\* C2: the run ends (summary and completion line, return, or process exit)
\* only when no task is still waiting for a permit or for its git invocation.
C2_EndsOnlyWhenTasksSettled ==
    [][(exitStatus = "running" /\ exitStatus' # "running")
          => \A t \in Tasks :
                task[t].pc \notin {"waiting", "granted", "pull", "clone"}]_vars

\* The step in which the invocation of task t fails (non-zero exit status or
\* an exception of create_subprocess_exec / communicate).
InvocationFails(t) ==
    /\ t \in Tasks
    /\ task[t].result = "none"
    /\ task'[t].result \in {"nonzero", "exception"}

\* C3: a failing invocation is swallowed in its own task and becomes one entry
\* of self.errors: the task returns normally (nothing reaches gather), the run
\* goes on, no sibling is cancelled or changed apart from being handed the
\* permit, and every task that has an outcome has the one its own invocation
\* result determines.
C3_FailureStaysInTask ==
    [][/\ \A t \in Tasks : InvocationFails(t) =>
             /\ task'[t].pc = "done_failure"
             /\ mainpc' = mainpc
             /\ exitStatus' = exitStatus
             /\ Len(errors') = Len(errors) + 1
             /\ errors'[Len(errors')].task = t
             /\ \A u \in Tasks \ {t} :
                  \/ task'[u] = task[u]
                  \/ /\ task[u].pc = "waiting"
                     /\ task'[u] = [task[u] EXCEPT !.pc = "granted"]
       /\ \A u \in 1..Len(task') :
             /\ task'[u].pc = "done_success" => task'[u].result = "zero"
             /\ task'[u].pc = "done_failure" => task'[u].result \in {"nonzero", "exception"}
             /\ task'[u].result = "zero" => task'[u].pc = "done_success"
             /\ task'[u].result \in {"nonzero", "exception"} => task'[u].pc = "done_failure"
      ]_vars

\* The run completed with a failed task and a sibling that succeeded.
C3_Witness ==
    /\ exitStatus = "0"
    /\ \E t, u \in Tasks :
         /\ task[t].pc = "done_failure"
         /\ task[u].pc = "done_success"

C5_ListingFailureAborts ==
    listing = "failed" =>
        /\ exitStatus = "1"
        /\ mainpc = "exited"
        /\ batch = <<>>
        /\ task = <<>>
        /\ sem = K
        /\ waiters = <<>>
        /\ errors = <<>>
        /\ out = <<LogRecord("fetch_failed", "HTTPError")>>

\* The request of page 2 failed after page 1 had delivered repositories.
C5_Witness ==
    /\ listing = "failed"
    /\ repos # <<>>
    /\ requested = <<1, 2>>

\* C6: the exit status is non-zero only if the listing failed; once the
\* listing has succeeded the process exits with status 0, whatever happens in
\* the tasks.
C6_NonZeroOnlyIfListingFails ==
    /\ exitStatus = "1" => listing = "failed"
    /\ (listing = "ok" /\ exitStatus # "running") => exitStatus = "0"

\* C7: a task that found base_path/name makes one `git pull` in that path and
\* no clone; a task that did not find it makes one `git clone <ssh_url>` in
\* base_path and no pull; a task that has not checked has invoked nothing.
C7_BranchFollowsCheck ==
    \A t \in Tasks :
        /\ task[t].exists = "unchecked" => task[t].invs = <<>>
        /\ task[t].exists = "yes" =>
              task[t].invs = <<[cmd |-> "pull", url |-> <<>>,
                                cwd |-> <<"base_path", batch[t].name>>]>>
        /\ task[t].exists = "no" =>
              task[t].invs = <<[cmd |-> "clone", url |-> batch[t].ssh_url,
                                cwd |-> <<"base_path">>]>>

\* One task pulled an existing path and another cloned a missing one.
C7_Witness ==
    \E t, u \in Tasks :
        /\ task[t].exists = "yes" /\ task[t].pc \in Terminal
        /\ task[u].exists = "no" /\ task[u].pc \in Terminal

\* The descriptors of the pages in front of the first empty page.
RECURSIVE PagesBeforeEmpty(_)
PagesBeforeEmpty(r) ==
    IF r = <<>> \/ r[1].body = <<>> THEN <<>>
    ELSE r[1].body \o PagesBeforeEmpty(Tail(r))

NamesOf(rs) == {rs[i].name : i \in 1..Len(rs)}

DistinctNames(rs) == \A i, j \in 1..Len(rs) : i # j => rs[i].name # rs[j].name

\* C8: get_repositories returns the repositories of the non-empty pages in
\* front of the first empty page and nothing else; N distinct repositories,
\* however split over pages, give N distinct entries.
C8_ListingIsAllPages ==
    listing = "ok" =>
        /\ repos = PagesBeforeEmpty(remote)
        /\ DistinctNames(PagesBeforeEmpty(remote)) =>
              Cardinality(NamesOf(repos)) = Len(PagesBeforeEmpty(remote))

\* Three distinct repositories came over two pages, then the empty page.
C8_Witness ==
    /\ listing = "ok"
    /\ requested = <<1, 2, 3>>
    /\ DistinctNames(PagesBeforeEmpty(remote))
    /\ Cardinality(NamesOf(repos)) = 3

\* C9: no two work items of a batch have the same name, also when the
\* endpoint returns a repository twice.
C9_NoDuplicateNames ==
    listing = "ok" => DistinctNames(repos) /\ DistinctNames(batch)

EntriesOf(t) == {i \in 1..Len(errors) : errors[i].task = t}

Failed == {t \in Tasks : task[t].result \in {"nonzero", "exception"}}

\* C10: self.errors holds exactly one entry, with the repository's name, for
\* each task whose invocation failed, and none for any other task; when all
\* tasks have terminated its length is the number of failed work items.
C10_OneEntryPerFailure ==
    /\ \A t \in Failed :
          /\ Cardinality(EntriesOf(t)) = 1
          /\ \A i \in EntriesOf(t) :
                errors[i].name = batch[t].name /\ errors[i].op = task[t].invs[1].cmd
    /\ \A t \in Tasks \ Failed : EntriesOf(t) = {}
    /\ GatherDone(task) =>
          Len(errors) = Cardinality({t \in Tasks : task[t].pc = "done_failure"})

\* All tasks have terminated: one exited non-zero, one raised, one succeeded.
C10_Witness ==
    /\ listing = "ok"
    /\ GatherDone(task)
    /\ \E t \in Tasks : task[t].result = "nonzero"
    /\ \E t \in Tasks : task[t].result = "exception"
    /\ \E t \in Tasks : task[t].result = "zero"

\* C11: when gather has returned, the reporter has emitted, if self.errors is
\* not empty, the header and then every message once, in append order; if it
\* is empty, no summary block; in both cases the completion line comes last.
\* It runs only when every task is terminal and leaves self.errors unchanged.
C11_SummaryInAppendOrder ==
    [][/\ mainpc' = "returned" =>
             LET n == Len(errors')
             IN  /\ n = 0 => Len(out') = 1
                 /\ n > 0 =>
                       /\ Len(out') = n + 2
                       /\ out'[1].kind = "summary_header"
                       /\ \A i \in 1..n :
                             out'[i + 1].kind = "error" /\ out'[i + 1].msg = errors'[i]
                 /\ out'[Len(out')].kind = "completed"
       /\ (mainpc = "gather" /\ mainpc' = "returned") =>
             /\ GatherDone(task)
             /\ errors' = errors
             /\ task' = task
      ]_vars

\* The summary of a run in which two tasks failed has been emitted.
C11_Witness ==
    /\ mainpc = "returned"
    /\ Len(errors) = 2
    /\ errors[1] # errors[2]
    /\ Len(out) = 4

\* The tasks that hold a permit in a state with task records tk: those handed
\* one by release() and those inside the with block.
HoldingIn(tk) == {t \in 1..Len(tk) : tk[t].pc \in {"granted", "pull", "clone"}}

\* C12: the path check and the git invocation happen only in a task that holds
\* a permit (handed to it, or free and taken in the same step); permits held
\* plus permits free are K in every state, so every way out of the with block
\* (success, non-zero exit, exception, cancellation) gives the permit back;
\* once all tasks have terminated all K permits are free.
C12_PermitHeldAndReturned ==
    [][/\ sem' + Cardinality(HoldingIn(task')) = K'
       /\ \A t \in Tasks :
             (task[t].exists = "unchecked" /\ task'[t].exists # "unchecked") =>
                 \/ task[t].pc = "granted"
                 \/ task[t].pc = "created" /\ sem >= 1
       /\ \A t \in Tasks :
             (t \in HoldingIn(task) /\ t \notin HoldingIn(task')) =>
                 \/ sem' = sem + Cardinality(HoldingIn(task) \ HoldingIn(task'))
                 \/ \E u \in Tasks : task[u].pc = "waiting" /\ task'[u].pc = "granted"
       /\ GatherDone(task') => sem' = K'
      ]_vars

\* All tasks have terminated after success, non-zero exit and exception, with
\* more tasks than permits, and every permit is free again.
C12_Witness ==
    /\ K >= 1
    /\ Len(task) > K
    /\ GatherDone(task)
    /\ sem = K
    /\ \E t \in Tasks : task[t].result = "nonzero"
    /\ \E t \in Tasks : task[t].result = "exception"
    /\ \E t \in Tasks : task[t].result = "zero"

PullOf(d) == [cmd |-> "pull", url |-> <<>>, cwd |-> <<"base_path", d.name>>]

CloneOf(d) == [cmd |-> "clone", url |-> d.ssh_url, cwd |-> <<"base_path">>]

ErrorLines == {i \in 1..Len(out) : out[i].kind = "error"}

\* C13: in the scenario {A exists and its pull succeeds, B is missing and its
\* clone succeeds, C exists and its pull fails} with K = 2, in every dispatch
\* order and interleaving: A and C only ever invoke pull, B only clone; when
\* the process has exited, A and B have succeeded, self.errors has exactly one
\* entry and it names C, the summary has exactly one error line, and the exit
\* status is 0.
C13_ScenarioOutcome ==
    /\ \A t \in Tasks :
          /\ batch[t].name \in {"A", "C"} => task[t].invs \in {<<>>, <<PullOf(batch[t])>>}
          /\ batch[t].name = "B" => task[t].invs \in {<<>>, <<CloneOf(batch[t])>>}
    /\ \A i \in 1..Len(errors) : errors[i].name = "C" /\ errors[i].op = "pull"
    /\ Len(errors) <= 1
    /\ exitStatus # "running" =>
          /\ exitStatus = "0"
          /\ Len(task) = 3
          /\ \A t \in Tasks :
                /\ task[t].invs # <<>>
                /\ batch[t].name \in {"A", "B"} => task[t].pc = "done_success"
                /\ batch[t].name = "C" => task[t].pc = "done_failure"
          /\ Len(errors) = 1
          /\ Cardinality(ErrorLines) = 1
          /\ \A i \in ErrorLines : out[i].msg.name = "C"
          /\ out[Len(out)].kind = "completed"

\* The scenario has run to its end with C dispatched first and B last, so that
\* B had to wait for a permit.
C13_Witness ==
    /\ exitStatus = "0"
    /\ Len(batch) = 3
    /\ batch[1].name = "C"
    /\ batch[3].name = "B"

\* C14: there is no timeout and no cancellation: as long as the git invocation
\* of a task has not completed, the task stays in it (holding its permit) and
\* the run neither reports nor exits.
C14_HungTaskBlocksRun ==
    [][\A t \in Tasks :
          (task[t].pc \in {"pull", "clone"} /\ task'[t].result = "none") =>
              /\ task'[t].pc = task[t].pc
              /\ exitStatus' = "running"
              /\ out' = out]_vars

\* C16: for K >= 1, once the listing has succeeded the run ends only by
\* emitting the completion line with every task terminal: a process that has
\* exited has done so (the finite face of "every task eventually terminates
\* and the completion line is eventually emitted").
C16_ListedRunCompletes ==
    (listing = "ok" /\ K >= 1 /\ exitStatus # "running") =>
        /\ GatherDone(task)
        /\ mainpc = "returned"
        /\ out # <<>>
        /\ out[Len(out)].kind = "completed"

OkNonEmpty(p) == ResponseAt(p).status = "ok" /\ ResponseAt(p).body # <<>>

\* C15: get_repositories requests pages 1, 2, 3, ... in this order, each once;
\* every page in front of the last requested one was answered and not empty;
\* the listing ends at the first empty page and fails at the first failing
\* page, and no request is made after either (no retry, no later page).
C15_PagesInOrderOnce ==
    [][/\ \A i \in 1..Len(requested') : requested'[i] = i
       /\ \A i \in 1..(Len(requested') - 1) : OkNonEmpty(i)
       /\ listing' = "running" => \A i \in 1..Len(requested') : OkNonEmpty(i)
       /\ listing' = "ok" =>
             /\ requested' # <<>>
             /\ ResponseAt(Len(requested')) = [status |-> "ok", body |-> <<>>]
       /\ listing' = "failed" =>
             /\ requested' # <<>>
             /\ ResponseAt(Len(requested')).status = "error"
       /\ listing # "running" => requested' = requested /\ listing' = listing
       /\ remote' = remote
      ]_vars

\* Page 1 was answered, page 2 failed, and it was requested once.
C15_Witness ==
    /\ listing = "failed"
    /\ requested = <<1, 2>>
    /\ repos # <<>>

\* C17: the limit is not validated. With K = 0 no task ever gets a permit,
\* checks a path or starts git; with a batch that is not empty the run never
\* reports or exits, and once every task is queued no step is possible at all;
\* with an empty batch gather returns and the run completes with status 0.
C17_ZeroLimitBlocks ==
    K = 0 =>
        /\ sem = 0
        /\ \A t \in Tasks :
              /\ task[t].pc \in {"created", "waiting"}
              /\ task[t].exists = "unchecked"
              /\ task[t].invs = <<>>
        /\ task # <<>> =>
              /\ exitStatus = "running"
              /\ out = <<>>
              /\ AllStarted => ~ENABLED Next
        /\ (listing = "ok" /\ task = <<>>) =>
              /\ mainpc = "gather" => ENABLED GatherReturn
              /\ mainpc # "gather" =>
                    /\ exitStatus = "0"
                    /\ out = <<LogRecord("completed", "Repository synchronization completed")>>

\* With K = 0 three tasks are queued on the semaphore and nothing can move.
C17_Witness ==
    /\ K = 0
    /\ Len(task) = 3
    /\ \A t \in Tasks : task[t].pc = "waiting"
    /\ waiters = <<1, 2, 3>>

RaisedIn(tk) == {t \in 1..Len(tk) : tk[t].pc = "raised"}

\* C18: an error raised in the CHECK phase is not turned into an entry of
\* self.errors: the task ends by raising, having invoked nothing, with its
\* permit given back; the exception reaches gather, so the run can no longer
\* return normally: the handler of listing failures logs a fetch failure and
\* exits with status 1, without summary or completion line, whatever state
\* the siblings are in.
C18_CheckErrorEscapes ==
    [][/\ \A t \in Tasks :
             (t \notin RaisedIn(task) /\ t \in RaisedIn(task')) =>
                 /\ task[t].pc \in {"created", "granted"}
                 /\ errors' = errors
                 /\ task'[t] = [task[t] EXCEPT !.pc = "raised"]
                 /\ task'[t].invs = <<>>
                 /\ t \notin HoldingIn(task')
                 /\ sem' + Cardinality(HoldingIn(task')) = K'
                 /\ mainpc' = mainpc
                 /\ exitStatus' = exitStatus
       /\ \A t \in RaisedIn(task) : task'[t] = task[t]
       /\ \A i \in 1..Len(errors') : errors'[i].task \notin RaisedIn(task')
       /\ RaisedIn(task) # {} =>
             /\ mainpc' # "returned"
             /\ (mainpc = "gather" /\ AllStarted) => ENABLED GatherRaise
       /\ (RaisedIn(task') # {} /\ exitStatus' # "running") =>
             /\ exitStatus' = "1"
             /\ mainpc' = "exited"
             /\ out' = <<LogRecord("fetch_failed", "CheckError")>>
             /\ out'[1].kind = LogRecord("fetch_failed", "HTTPError").kind
      ]_vars

\* The run has exited with status 1 after a check error, with one message in
\* self.errors that is never reported and a sibling cancelled in mid-flight.
C18_Witness ==
    /\ exitStatus = "1"
    /\ listing = "ok"
    /\ RaisedIn(task) # {}
    /\ \E t \in Tasks : task[t].pc = "cancelled"
    /\ errors # <<>>

\* C19: no two git invocations that are active at the same time work on the
\* same base_path/name, and the path a task has still to check is not created
\* by another task of the run.
C19_NoSharedPath ==
    [][/\ \A t, u \in Active : t # u => batch[t].name # batch[u].name
       /\ \A t \in Tasks :
             task[t].pc \in {"created", "waiting", "granted"} =>
                 ((batch[t].name \in fs') <=> (batch[t].name \in fs))
      ]_vars

====
